---------------------------- MODULE Spec2Model ----------------------------
(***************************************************************************)
(* Model of email_processor: the coroutine pipeline (util.Pipeline and     *)
(* command.stage / command.sink), the MessageProxy envelope (util.py) and  *)
(* the stage library of command.py, as one state machine.                  *)
(*                                                                         *)
(* Labels are strings.  A line of a mail body is a sequence of text units *)
(* (a unit is one delimiter character or a run of other text), so that the *)
(* prefix match of signature_line_re can be computed.  The value of the    *)
(* X-Keywords header is a sequence of atoms (label text, "," and " "), so  *)
(* that strip/split/join are computed rather than assumed.                 *)
(***************************************************************************)
EXTENDS Integers, Sequences, FiniteSets, TLC

\* ------------------------------------------------------------------------
\* Bounds of the model
\* ------------------------------------------------------------------------

\* messages a query yields at most
MaxMsgs == 2

\* longest list of lines handed to _strip_signatures in the unit runs
MaxLines == 4

\* largest max_signature_size tried in the unit runs
MaxSigSize == 2

\* direct add_tag / remove_tag calls made on one envelope in the unit runs
MaxCalls == 2

\* longest field handed to truncate in the unit runs
MaxField == 5

\* largest width handed to truncate in the unit runs
MaxWidth == 7

\* ------------------------------------------------------------------------
\* command.py: label tables
\* ------------------------------------------------------------------------

GMAIL_HEADERS_TO_TAGS ==
    ("\\Important" :> "important") @@ ("\\Starred" :> "flagged") @@
    ("\\Sent" :> "sent") @@ ("\\Draft" :> "draft") @@ ("\\Inbox" :> "inbox")

\* {v: k for k, v in GMAIL_HEADERS_TO_TAGS.items()}
GMAIL_TAGS_TO_HEADERS ==
    [v \in {GMAIL_HEADERS_TO_TAGS[k] : k \in DOMAIN GMAIL_HEADERS_TO_TAGS} |->
        CHOOSE k \in DOMAIN GMAIL_HEADERS_TO_TAGS : GMAIL_HEADERS_TO_TAGS[k] = v]

maildir_tags == {"unread", "draft", "flagged", "passed", "signed", "replied"}

exclude_sync_tags == {"new"} \cup maildir_tags

\* a toggle_header that only knows the forward table
toggle_header_forward_only(item) ==
    IF item \in DOMAIN GMAIL_HEADERS_TO_TAGS THEN GMAIL_HEADERS_TO_TAGS[item]
    ELSE item

\* a toggle_header without its last line: an unmapped item falls off the end
toggle_header_no_fallback(item) ==
    IF item \in DOMAIN GMAIL_HEADERS_TO_TAGS THEN GMAIL_HEADERS_TO_TAGS[item]
    ELSE IF item \in DOMAIN GMAIL_TAGS_TO_HEADERS THEN GMAIL_TAGS_TO_HEADERS[item]
    ELSE "<None>"

toggle_header(item) ==
    IF item \in DOMAIN GMAIL_HEADERS_TO_TAGS THEN GMAIL_HEADERS_TO_TAGS[item]
    ELSE IF item \in DOMAIN GMAIL_TAGS_TO_HEADERS THEN GMAIL_TAGS_TO_HEADERS[item]
    ELSE item

\* ------------------------------------------------------------------------
\* util.py: MessageProxy._strip_signatures
\* ------------------------------------------------------------------------

SigChars == {"-", "_", "=", "*", "#"}

\* signature_line_re = r'^((--)|(__)|(==)|(\*\*)|(##))' matched at line start
signature_line_re(line) ==
    /\ Len(line) >= 2
    /\ line[1] \in SigChars
    /\ line[2] = line[1]

\* Python's seq[:stop]
SliceTo(seq, stop) ==
    LET n == Len(seq)
        s == IF stop < 0 THEN (IF n + stop < 0 THEN 0 ELSE n + stop)
             ELSE (IF stop > n THEN n ELSE stop)
    IN  SubSeq(seq, 1, s)

\* the loop with the threshold test taken before the delimiter test
RECURSIVE StripLoopTestFirst(_, _, _, _, _)
StripLoopTestFirst(lines, max_signature_size, n, siglines, sigline_count) ==
    IF n >= Len(lines) THEN [siglines |-> siglines, looked |-> n]
    ELSE
        LET line == lines[Len(lines) - n]
            m    == signature_line_re(line)
        IN  IF sigline_count >= max_signature_size
            THEN [siglines |-> siglines, looked |-> n + 1]
            ELSE StripLoopTestFirst(lines, max_signature_size, n + 1,
                                    IF m THEN n + 1 ELSE siglines,
                                    IF m THEN 1 ELSE sigline_count + 1)

\* the for loop of _strip_signatures from iteration n (0-based index into
\* reversed(lines)) with the loop variables siglines and sigline_count;
\* yields the final siglines and the number of lines the loop looked at.
RECURSIVE StripLoop(_, _, _, _, _)
StripLoop(lines, max_signature_size, n, siglines, sigline_count) ==
    IF n >= Len(lines) THEN [siglines |-> siglines, looked |-> n]
    ELSE
        LET line == lines[Len(lines) - n]
            m    == signature_line_re(line)
            sl   == IF m THEN n + 1 ELSE siglines
            sc   == IF m THEN 0 ELSE sigline_count
        IN  IF sc >= max_signature_size
            THEN [siglines |-> sl, looked |-> n + 1]
            ELSE StripLoop(lines, max_signature_size, n + 1, sl, sc + 1)

StripScan(lines, max_signature_size) ==
    StripLoop(lines, max_signature_size, 0, 0, 0)

\* return lines[:-siglines]
_strip_signatures(lines, max_signature_size) ==
    SliceTo(lines, 0 - StripScan(lines, max_signature_size).siglines)

\* def _strip_signatures(self, lines, max_signature_size=10)
DefaultMaxSignatureSize == 10


\* ------------------------------------------------------------------------
\* State
\* ------------------------------------------------------------------------

VARIABLES
    debug,      \* MessageProxy.debug
    dryrun,     \* MessageProxy.dryrun
    stages,     \* the list the command hands to Pipeline()
    pipeline,   \* Pipeline.pipeline: the chain, in the order a value travels
    finished,   \* positions of the chain whose generator has returned
    pc,         \* position of process_pipeline / of the unit run
    total,      \* messages the query yields
    fetched,    \* messages the for loop has taken so far
    msg,        \* the MessageProxy in hand, with the notmuch message it wraps
    frozen,     \* notmuch messages between freeze() and thaw()
    pos,        \* element of the chain that holds the value being sent
    exc,        \* exception that left process_pipeline ("none" if none)
    log,        \* records handed to logger
    lines,      \* unit run: argument of _strip_signatures
    max_signature_size,  \* unit run: argument of _strip_signatures
    stripped,   \* unit run: outcome of _strip_signatures
    item,       \* unit run: argument of toggle_header
    toggled,    \* unit run: successive results of toggle_header
    ret,        \* unit run: outcome of a direct add_tag / remove_tag call
    truncated,  \* unit run: arguments and outcome of truncate
    twin        \* paired run: the message as first met and what the first run did

vars == <<debug, dryrun, stages, pipeline, finished, pc, total, fetched, msg, frozen, pos, exc, log,
          lines, max_signature_size, stripped, item, toggled, ret, truncated,
          twin>>

unitVars == <<lines, max_signature_size, stripped, item, toggled, ret, truncated, twin>>

\* ------------------------------------------------------------------------
\* Helpers on sequences and sets
\* ------------------------------------------------------------------------

RECURSIVE SetToSeq(_)
SetToSeq(S) ==
    IF S = {} THEN <<>>
    ELSE LET x == CHOOSE y \in S : TRUE IN <<x>> \o SetToSeq(S \ {x})

Range(seq) == {seq[i] : i \in 1..Len(seq)}

RECURSIVE Reverse(_)
Reverse(seq) ==
    IF seq = <<>> THEN <<>> ELSE Append(Reverse(Tail(seq)), Head(seq))

\* the sequences over S of length at most n
SeqsUpTo(S, n) == UNION {[1..k -> S] : k \in 0..n}

\* ------------------------------------------------------------------------
\* The X-Keywords header value as text
\* ------------------------------------------------------------------------

\* Python's None, as an argument where a label is expected
None == "<None>"

\* the text of a label, atom by atom
LabelAtoms(label) ==
    CASE label = "" -> <<>>
      [] label = "a,b" -> <<"a", ",", "b">>
      [] label = " custom" -> <<" ", "custom">>
      [] OTHER -> <<label>>

\* str.strip(): white space off both ends
RECURSIVE LStrip(_)
LStrip(text) ==
    IF text # <<>> /\ Head(text) = " " THEN LStrip(Tail(text)) ELSE text

StrStrip(text) == Reverse(LStrip(Reverse(LStrip(text))))

\* str.split(","): the pieces between commas, as strings
RECURSIVE StrSplit(_, _)
StrSplit(text, piece) ==
    IF text = <<>> THEN <<piece>>
    ELSE IF Head(text) = "," THEN <<piece>> \o StrSplit(Tail(text), "")
    ELSE StrSplit(Tail(text), piece \o Head(text))

\* ','.join(keywords)
RECURSIVE StrJoin(_)
StrJoin(keywords) ==
    IF keywords = <<>> THEN <<>>
    ELSE IF Len(keywords) = 1 THEN LabelAtoms(keywords[1])
    ELSE LabelAtoms(keywords[1]) \o <<",">> \o StrJoin(Tail(keywords))

RECURSIVE NonEmpty(_)
NonEmpty(pieces) ==
    IF pieces = <<>> THEN <<>>
    ELSE IF Head(pieces) = "" THEN NonEmpty(Tail(pieces))
    ELSE <<Head(pieces)>> \o NonEmpty(Tail(pieces))

\* ------------------------------------------------------------------------
\* util.py: MessageProxy, with the notmuch message and the mail file behind it
\* ------------------------------------------------------------------------

\* MessageProxy.__init__ around a notmuch message with these tags, this mail
\* file (X-Keywords marker present or not, the text after it up to the
\* newline) and these MIME parts.  calls / attempts / writes / snaps record
\* what happened to the message: calls that reached the notmuch message,
\* calls made to the proxy, rewrites of the file, tags after each stage.
MessageProxy(tags, file, parts) ==
    [ tags         |-> tags,
      file         |-> file,
      parts        |-> parts,
      _mail        |-> "None",
      _body        |-> [cached |-> FALSE, text |-> <<>>],
      _add_tags    |-> {},
      _remove_tags |-> {},
      calls        |-> <<>>,
      attempts     |-> <<>>,
      writes       |-> <<>>,
      snaps        |-> <<>>,
      invoked      |-> <<>> ]

\* what a method call yields: the message afterwards and the exception raised
Ok(m) == [msg |-> m, exc |-> "none", log |-> <<>>]

Raise(m, e) == [msg |-> m, exc |-> e, log |-> <<>>]

\* a _get_keywords that does not raise when find() returns -1
_get_keywords_no_raise(file) ==
    [exc |-> "none", text |-> IF file.marker THEN file.value ELSE <<>>]

\* _get_keywords: the byte range after "X-Keywords:" up to the newline
_get_keywords(file) ==
    IF ~file.marker
    THEN [exc |-> "AttributeError", text |-> <<>>]
    ELSE [exc |-> "none", text |-> file.value]

\* [t for t in m[start:end].strip().split(",") if t != '']
get_keywords(m) ==
    LET r == _get_keywords(m.file)
    IN  IF r.exc # "none" THEN [exc |-> r.exc, keywords |-> <<>>]
        ELSE [exc |-> "none",
              keywords |-> NonEmpty(StrSplit(StrStrip(r.text), ""))]

\* fh.write(m[:start] + ' ' + b','.join(keywords) + m[end:]); self._mail = None
set_keywords(m, keywords, at) ==
    LET r == _get_keywords(m.file)
    IN  IF r.exc # "none" THEN Raise(m, r.exc)
        ELSE Ok([m EXCEPT !.file.value = <<" ">> \o StrJoin(keywords),
                          !._mail = "None",
                          !.writes = Append(@, [at |-> at, keywords |-> keywords])])

\* a call made to the proxy, whatever becomes of it
Attempt(m, op, tag, at) ==
    [m EXCEPT !.attempts = Append(@, [at |-> at, op |-> op, tag |-> tag])]

\* notmuch's Message.add_tag / remove_tag, reached through self._msg
HandleCall(m, op, tag, at) ==
    [m EXCEPT !.tags = IF op = "add" THEN @ \cup {tag} ELSE @ \ {tag},
              !.calls = Append(@, [at |-> at, op |-> op, tag |-> tag])]

\* an add_tag without the dry-run guard
add_tag_ignores_dryrun(m, tag, at) ==
    LET a == Attempt(m, "add", tag, at)
    IN  IF tag = None \/ tag = "" THEN Raise(a, "AssertionError")
        ELSE Ok(HandleCall([a EXCEPT !._add_tags =
                               IF debug THEN @ \cup {"+" \o tag} ELSE @],
                           "add", tag, at))

\* MessageProxy.add_tag.  `tag is not ""` is an identity test; CPython keeps
\* one empty str object, so it is modelled as a comparison.
add_tag(m, tag, at) ==
    LET a == Attempt(m, "add", tag, at)
        d == IF debug THEN [a EXCEPT !._add_tags = @ \cup {"+" \o tag}] ELSE a
    IN  IF tag = None \/ tag = "" THEN Raise(a, "AssertionError")
        ELSE IF ~dryrun THEN Ok(HandleCall(d, "add", tag, at))
        ELSE Ok(d)

\* a remove_tag that returns after recording the label when debug is on
remove_tag_debug_returns(m, tag, at) ==
    LET a == Attempt(m, "remove", tag, at)
        d == IF debug THEN [a EXCEPT !._remove_tags = @ \cup {"-" \o tag}] ELSE a
    IN  IF debug /\ tag = None THEN Raise(a, "TypeError")
        ELSE IF ~dryrun /\ ~debug THEN Ok(HandleCall(d, "remove", tag, at))
        ELSE Ok(d)

\* MessageProxy.remove_tag: no assertion; "-" + None is a TypeError
remove_tag(m, tag, at) ==
    LET a == Attempt(m, "remove", tag, at)
        d == IF debug THEN [a EXCEPT !._remove_tags = @ \cup {"-" \o tag}] ELSE a
    IN  IF debug /\ tag = None THEN Raise(a, "TypeError")
        ELSE IF ~dryrun THEN Ok(HandleCall(d, "remove", tag, at))
        ELSE Ok(d)

\* the mail property: parse the file once
mail(m) == [m EXCEPT !._mail = "parsed"]

\* lines of the text/plain parts, each part stripped of its signature
RECURSIVE BodyText(_)
BodyText(parts) ==
    IF parts = <<>> THEN <<>>
    ELSE (IF Head(parts).ctype = "text/plain"
          THEN _strip_signatures(Head(parts).lines, DefaultMaxSignatureSize)
          ELSE <<>>) \o BodyText(Tail(parts))

\* the body property: computed on first use, cached afterwards
body(m) ==
    IF m._body.cached THEN m
    ELSE [mail(m) EXCEPT !._body = [cached |-> TRUE, text |-> BodyText(m.parts)]]

\* '@kotfic' in text
Mentions(text) ==
    \E i \in 1..Len(text) : \E j \in 1..Len(text[i]) : text[i][j] = "@kotfic"

\* ------------------------------------------------------------------------
\* command.py: the stage library
\* ------------------------------------------------------------------------

\* for tag in tags: message.remove_tag(tag), stopping at an exception
RECURSIVE RemoveEach(_, _, _)
RemoveEach(r, tags, at) ==
    IF r.exc # "none" \/ tags = <<>> THEN r
    ELSE RemoveEach(remove_tag(r.msg, Head(tags), at), Tail(tags), at)

\* for tag in tags: message.add_tag(tag), stopping at an exception
RECURSIVE AddEach(_, _, _)
AddEach(r, tags, at) ==
    IF r.exc # "none" \/ tags = <<>> THEN r
    ELSE AddEach(add_tag(r.msg, Head(tags), at), Tail(tags), at)

\* the tags without the exclusion filter
SyncTagsUnfiltered(m) == m.tags

\* set(str(t) for t in message.get_tags() if t not in exclude_sync_tags)
SyncTags(m) == {t \in m.tags : t \notin exclude_sync_tags}

\* set(toggle_header(t) for t in message.get_keywords())
SyncKeywords(keywords) == {toggle_header(t) : t \in Range(keywords)}

\* a sync_gmail_tags that adds every keyword, present or not
sync_gmail_tags_adds_all(m, at) ==
    LET tags == SyncTags(m)
        kw   == get_keywords(m)
        keywords == SyncKeywords(kw.keywords)
    IN  IF kw.exc = "AttributeError" THEN Ok(m)
        ELSE AddEach(RemoveEach(Ok(m), SetToSeq(tags \ keywords), at),
                     SetToSeq(keywords), at)

sync_gmail_tags(m, at) ==
    LET tags == SyncTags(m)
        kw   == get_keywords(m)
        keywords == SyncKeywords(kw.keywords)
    IN  IF kw.exc = "AttributeError" THEN Ok(m)
        ELSE AddEach(RemoveEach(Ok(m), SetToSeq(tags \ keywords), at),
                     SetToSeq(keywords \ tags), at)

\* a sync_gmail_keywords that writes the tags as they are
sync_gmail_keywords_untranslated(m, at) ==
    LET kw   == get_keywords(m)
        keywords == SyncKeywords(kw.keywords)
        tags == SyncTags(m)
        seen == IF debug THEN mail(m) ELSE m
        out  == IF ~dryrun THEN set_keywords(seen, SetToSeq(tags), at) ELSE Ok(seen)
    IN  IF kw.exc = "AttributeError" THEN Ok(m)
        ELSE IF (tags \ keywords) \cup (keywords \ tags) = {} THEN Ok(m)
        ELSE [out EXCEPT !.log = IF debug THEN <<"info: keywords differ">> ELSE <<>>]

sync_gmail_keywords(m, at) ==
    LET kw   == get_keywords(m)
        keywords == SyncKeywords(kw.keywords)
        tags == SyncTags(m)
        seen == IF debug THEN mail(m) ELSE m
        out  == IF ~dryrun
                THEN set_keywords(seen, [i \in 1..Cardinality(tags) |->
                                           toggle_header(SetToSeq(tags)[i])], at)
                ELSE Ok(seen)
    IN  IF kw.exc = "AttributeError" THEN Ok(m)
        ELSE IF (tags \ keywords) \cup (keywords \ tags) = {} THEN Ok(m)
        ELSE [out EXCEPT !.log = IF debug THEN <<"info: keywords differ">> ELSE <<>>]

\* a remove_new that removes the maildir tag unread
remove_new_removes_unread(m, at) == remove_tag(m, "unread", at)

remove_new(m, at) == remove_tag(m, "new", at)

add_mention(m, at) ==
    LET b == body(m)
    IN  IF Mentions(b._body.text) THEN add_tag(b, "mention", at) ELSE Ok(b)

drop(m, at) == Ok(m)

\* A value that may be None is a sequence of length at most one: <<>> is
\* None, <<v>> is v.  A field is a sequence of characters.
Whitespace == {" ", "\t"}

\* str.split(): the maximal runs of non-whitespace characters
RECURSIVE SplitWhitespace(_, _, _)
SplitWhitespace(text, word, acc) ==
    LET flushed == IF word = <<>> THEN acc ELSE Append(acc, word)
    IN  IF text = <<>> THEN flushed
        ELSE IF Head(text) \in Whitespace
             THEN SplitWhitespace(Tail(text), <<>>, flushed)
             ELSE SplitWhitespace(Tail(text), Append(word, Head(text)), acc)

\* ' '.join(words)
RECURSIVE JoinSpace(_)
JoinSpace(words) ==
    IF words = <<>> THEN <<>>
    ELSE IF Len(words) = 1 THEN words[1]
    ELSE words[1] \o <<" ">> \o JoinSpace(Tail(words))

\* seq[:n] for n >= 0
Prefix(seq, n) == SubSeq(seq, 1, IF n < Len(seq) THEN n ELSE Len(seq))

\* a truncate that keeps w characters and then appends the marker
truncate_cut_at_w(s, w) ==
    IF w = <<>> THEN s
    ELSE IF s = <<>> \/ w[1] <= 4 THEN << <<>> >>
    ELSE LET c == JoinSpace(SplitWhitespace(s[1], <<>>, <<>>))
         IN  IF Len(c) < w[1] THEN <<c>>
             ELSE << Prefix(c, w[1]) \o <<".", ".", ".">> >>

truncate(s, w) ==
    IF w = <<>> THEN s
    ELSE IF s = <<>> \/ w[1] <= 4 THEN << <<>> >>
    ELSE LET c == JoinSpace(SplitWhitespace(s[1], <<>>, <<>>))
         IN  IF Len(c) < w[1] THEN <<c>>
             ELSE << Prefix(c, w[1] - 3) \o <<".", ".", ".">> >>

\* _log_output inside log_output()
log_output(m, at) ==
    IF debug THEN [Ok(mail(m)) EXCEPT !.log = <<"info: report">>] ELSE Ok(m)

Sinks == {"drop", "log_output"}

\* ------------------------------------------------------------------------
\* util.py: Pipeline
\* ------------------------------------------------------------------------

\* b(a): stage b primed with target a; a value sent to it visits b, then a
Bind(b, a) == <<b>> \o a

\* functools.reduce(lambda a, b: b(a), seq) from the accumulator a
RECURSIVE Reduce(_, _)
Reduce(a, rest) ==
    IF rest = <<>> THEN a ELSE Reduce(Bind(Head(rest), a), Tail(rest))

\* a Pipeline that folds the list without reversing it
PipelineUnreversed(list) == Reduce(<<Head(list)>>, Tail(list))

\* Pipeline.__init__: reduce(lambda a, b: b(a), pipeline[::-1])
Pipeline(list) ==
    LET rev == Reverse(list) IN Reduce(<<Head(rev)>>, Tail(rev))

\* the methods class Pipeline defines
PipelineMethods == {"__init__", "send"}

\* ------------------------------------------------------------------------
\* Inputs: what the index and the mail files may hold
\* ------------------------------------------------------------------------

TagUniverse == {"inbox", "custom", "new", "flagged", "a,b"}

\* mail files: without the X-Keywords marker, and with these header values
FileUniverse ==
    {[marker |-> FALSE, value |-> <<>>]} \cup
    {[marker |-> TRUE, value |-> v] : v \in
        { <<>>,
          <<" ", "\\Inbox">>,
          <<" ", "\\Starred">>,
          <<" ", "new">>,
          <<" ", "\\Inbox", ",", "custom">>,
          <<" ", "inbox", ",", ",", " ", "custom", " ">> }}

TextPart(ls) == [ctype |-> "text/plain", lines |-> ls]

\* MIME structures: no text part; a mention and no signature; a mention
\* above a signature; a mention inside the signature
PartsUniverse ==
    { << [ctype |-> "text/html", lines |-> << <<"@kotfic">> >>] >>,
      << TextPart(<< <<"hi ", "@kotfic">> >>) >>,
      << TextPart(<< <<"hi ", "@kotfic">>, <<"-", "-">>, <<"sig">> >>) >>,
      << TextPart(<< <<"hi">>, <<"-", "-", " ">>, <<"@kotfic">> >>) >> }

\* the stage lists handed to Pipeline(): the two commands of command.py, the
\* reconcile stage twice in succession, push / reconcile / push, and the
\* push stage behind a stage that reads the body
SyncList == <<"sync_gmail_tags", "add_mention", "remove_new", "log_output">>

SyncKeywordsList == <<"sync_gmail_keywords", "drop">>

TwiceList == <<"sync_gmail_tags", "sync_gmail_tags", "drop">>

PushReconcileList ==
    <<"sync_gmail_keywords", "sync_gmail_tags", "sync_gmail_keywords", "drop">>

MentionPushList == <<"add_mention", "sync_gmail_keywords", "drop">>

PipelineLists ==
    {SyncList, SyncKeywordsList, TwiceList, PushReconcileList, MentionPushList}

\* lines tried on _strip_signatures
LineUniverse == { <<"Huhu">>, <<"-", "-">>, <<"*", "*", "x">>, <<"-">> }

\* labels tried on toggle_header
ItemUniverse ==
    DOMAIN GMAIL_HEADERS_TO_TAGS \cup DOMAIN GMAIL_TAGS_TO_HEADERS
    \cup TagUniverse \cup {"custom-tag", ""}

\* arguments tried on direct add_tag / remove_tag calls
CallLabels == {None, "", "inbox", "new"}

NoMessage == MessageProxy({}, [marker |-> FALSE, value |-> <<>>], <<>>)

NotStripped == [done |-> FALSE, result |-> <<>>, siglines |-> 0, looked |-> 0]

\* characters of the fields tried on truncate
FieldChars == {"x", " ", "\t"}

NotTruncated == [s |-> <<>>, w |-> <<>>, done |-> FALSE, result |-> <<>>]

\* what a run leaves outside the process: the calls that reached the notmuch
\* message, the tags they left, the rewrites of the header and the file
Effects(m) == [calls |-> m.calls, tags |-> m.tags, writes |-> m.writes, file |-> m.file]

NoTwin == [run |-> 0, origin |-> NoMessage, first |-> Effects(NoMessage)]

\* ------------------------------------------------------------------------
\* process_pipeline: the run of one command
\* ------------------------------------------------------------------------

UnitIdle ==
    /\ lines = <<>>
    /\ max_signature_size = DefaultMaxSignatureSize
    /\ stripped = NotStripped
    /\ item = ""
    /\ toggled = <<>>
    /\ ret = <<>>
    /\ truncated = NotTruncated
    /\ twin = NoTwin

\* main(): the flags are set, the command builds its Pipeline
Init ==
    /\ debug \in BOOLEAN
    /\ dryrun \in BOOLEAN
    /\ stages \in PipelineLists
    /\ pipeline = Pipeline(stages)
    /\ finished = {}
    /\ pc = "query"
    /\ total = 0
    /\ fetched = 0
    /\ msg = NoMessage
    /\ frozen = 0
    /\ pos = 0
    /\ exc = "none"
    /\ log = <<>>
    /\ UnitIdle

\* search_messages() raises NullPointerError
QueryRaises ==
    /\ pc = "query"
    /\ pc' = "except"
    /\ UNCHANGED <<debug, dryrun, stages, pipeline, finished, total, fetched, msg, frozen, pos, exc, log>>
    /\ UNCHANGED unitVars

\* search_messages() yields n messages
QueryYields ==
    /\ pc = "query"
    /\ \E n \in 0..MaxMsgs : total' = n
    /\ pc' = "loop"
    /\ UNCHANGED <<debug, dryrun, stages, pipeline, finished, fetched, msg, frozen, pos, exc, log>>
    /\ UNCHANGED unitVars

\* for msg in get_messages(query): msg.freeze(); pipeline.send(msg) begins
NextMessage ==
    /\ pc = "loop"
    /\ fetched < total
    /\ \E tags \in SUBSET TagUniverse, file \in FileUniverse, parts \in PartsUniverse :
         msg' = MessageProxy(tags, file, parts)
    /\ frozen' = frozen + 1
    /\ fetched' = fetched + 1
    /\ pos' = 1
    /\ pc' = "send"
    /\ UNCHANGED <<debug, dryrun, stages, pipeline, finished, total, exc, log>>
    /\ UNCHANGED unitVars

\* the generator is exhausted: process_pipeline returns
Exhausted ==
    /\ pc = "loop"
    /\ fetched = total
    /\ pc' = "done"
    /\ UNCHANGED <<debug, dryrun, stages, pipeline, finished, total, fetched, msg, frozen, pos, exc, log>>
    /\ UNCHANGED unitVars

\* the chain element at pos holds the value and is an instance of name
Holds(name) ==
    /\ pc = "send"
    /\ pos \in 1..Len(pipeline)
    /\ pipeline[pos] = name

\* stage(): message = func(message); target.send(message).  sink(): func(message)
\* and back to its yield.  An exception unwinds send() and the for loop, and
\* ends the generators it passes through.
Forward(name, r) ==
    /\ msg' = [r.msg EXCEPT !.invoked = Append(@, name),
                            !.snaps = Append(@, r.msg.tags)]
    /\ log' = log \o r.log
    /\ IF r.exc = "none"
       THEN /\ pos' = pos + 1
            /\ UNCHANGED <<pc, exc, finished>>
       ELSE /\ pc' = "done"
            /\ exc' = r.exc
            /\ finished' = finished \cup 1..pos
            /\ UNCHANGED pos
    /\ UNCHANGED <<debug, dryrun, stages, pipeline, total, fetched, frozen>>
    /\ UNCHANGED unitVars

SyncGmailTags ==
    /\ Holds("sync_gmail_tags")
    /\ Forward("sync_gmail_tags", sync_gmail_tags(msg, pos))

SyncGmailKeywords ==
    /\ Holds("sync_gmail_keywords")
    /\ Forward("sync_gmail_keywords", sync_gmail_keywords(msg, pos))

AddMention ==
    /\ Holds("add_mention")
    /\ Forward("add_mention", add_mention(msg, pos))

RemoveNew ==
    /\ Holds("remove_new")
    /\ Forward("remove_new", remove_new(msg, pos))

Drop ==
    /\ Holds("drop")
    /\ Forward("drop", drop(msg, pos))

LogOutput ==
    /\ Holds("log_output")
    /\ Forward("log_output", log_output(msg, pos))

\* a loop body without msg.thaw()
SendReturnsNoThaw ==
    /\ pc = "send"
    /\ pos = Len(pipeline) + 1
    /\ msg' = NoMessage
    /\ pos' = 0
    /\ pc' = "loop"
    /\ UNCHANGED <<debug, dryrun, stages, pipeline, finished, total, fetched, frozen, exc, log>>
    /\ UNCHANGED unitVars

\* pipeline.send(msg) returns; msg.thaw(); the envelope is not used again
SendReturns ==
    /\ pc = "send"
    /\ pos = Len(pipeline) + 1
    /\ frozen' = frozen - 1
    /\ msg' = NoMessage
    /\ pos' = 0
    /\ pc' = "loop"
    /\ UNCHANGED <<debug, dryrun, stages, pipeline, finished, total, fetched, exc, log>>
    /\ UNCHANGED unitVars

\* except notmuch.errors.NullPointerError: logger.error(...); pipeline.close()
ExceptNullPointer ==
    /\ pc = "except"
    /\ log' = Append(log, "error: Query returned no results")
    /\ exc' = IF "close" \in PipelineMethods THEN "none" ELSE "AttributeError"
    /\ finished' = IF "close" \in PipelineMethods THEN finished \cup {1} ELSE finished
    /\ pc' = "done"
    /\ UNCHANGED <<debug, dryrun, stages, pipeline, total, fetched, msg, frozen, pos>>
    /\ UNCHANGED unitVars

Next ==
    \/ QueryRaises
    \/ QueryYields
    \/ NextMessage
    \/ Exhausted
    \/ SyncGmailTags
    \/ SyncGmailKeywords
    \/ AddMention
    \/ RemoveNew
    \/ Drop
    \/ LogOutput
    \/ SendReturns
    \/ ExceptNullPointer

Spec == Init /\ [][Next]_vars

\* ------------------------------------------------------------------------
\* Paired runs: one message sent through the pipeline by two runs of the
\* command that differ in --debug only
\* ------------------------------------------------------------------------

\* main() has set the flags, the first run has frozen its message
InitPaired ==
    /\ debug \in BOOLEAN
    /\ dryrun \in BOOLEAN
    /\ stages \in PipelineLists
    /\ pipeline = Pipeline(stages)
    /\ finished = {}
    /\ pc = "send"
    /\ total = 1
    /\ fetched = 1
    /\ \E tags \in SUBSET TagUniverse, file \in FileUniverse, parts \in PartsUniverse :
         msg = MessageProxy(tags, file, parts)
    /\ frozen = 1
    /\ pos = 1
    /\ exc = "none"
    /\ log = <<>>
    /\ lines = <<>>
    /\ max_signature_size = DefaultMaxSignatureSize
    /\ stripped = NotStripped
    /\ item = ""
    /\ toggled = <<>>
    /\ ret = <<>>
    /\ truncated = NotTruncated
    /\ twin = [run |-> 1, origin |-> msg, first |-> Effects(msg)]

\* the first run is over; main() of the second run sets the other --debug
\* and the same message, in the state the first run met it in, is sent
RunAgain ==
    /\ pc = "send"
    /\ pos = Len(pipeline) + 1
    /\ twin.run = 1
    /\ twin' = [twin EXCEPT !.run = 2, !.first = Effects(msg)]
    /\ debug' = ~debug
    /\ msg' = twin.origin
    /\ pos' = 1
    /\ log' = <<>>
    /\ UNCHANGED <<dryrun, stages, pipeline, finished, pc, total, fetched, frozen, exc,
                   lines, max_signature_size, stripped, item, toggled, ret, truncated>>

NextPaired ==
    \/ SyncGmailTags
    \/ SyncGmailKeywords
    \/ AddMention
    \/ RemoveNew
    \/ Drop
    \/ LogOutput
    \/ RunAgain

SpecPaired == InitPaired /\ [][NextPaired]_vars

\* ------------------------------------------------------------------------
\* Unit runs: one function applied to drawn arguments
\* ------------------------------------------------------------------------

RunIdle ==
    /\ twin = NoTwin
    /\ stages = SyncList
    /\ pipeline = Pipeline(stages)
    /\ finished = {}
    /\ total = 0
    /\ fetched = 0
    /\ frozen = 0
    /\ pos = 0
    /\ exc = "none"
    /\ log = <<>>

InitStrip ==
    /\ truncated = NotTruncated
    /\ pc = "strip"
    /\ lines \in SeqsUpTo(LineUniverse, MaxLines)
    /\ max_signature_size \in 0..MaxSigSize
    /\ stripped = NotStripped
    /\ item = ""
    /\ toggled = <<>>
    /\ ret = <<>>
    /\ debug = FALSE
    /\ dryrun = FALSE
    /\ msg = NoMessage

InitToggle ==
    /\ truncated = NotTruncated
    /\ pc = "toggle"
    /\ item \in ItemUniverse
    /\ toggled = <<>>
    /\ lines = <<>>
    /\ max_signature_size = DefaultMaxSignatureSize
    /\ stripped = NotStripped
    /\ ret = <<>>
    /\ debug = FALSE
    /\ dryrun = FALSE
    /\ msg = NoMessage

InitProxy ==
    /\ truncated = NotTruncated
    /\ pc = "proxy"
    /\ debug \in BOOLEAN
    /\ dryrun \in BOOLEAN
    /\ \E tags \in SUBSET {"inbox", "new"} :
         msg = MessageProxy(tags, [marker |-> FALSE, value |-> <<>>], <<>>)
    /\ ret = <<>>
    /\ lines = <<>>
    /\ max_signature_size = DefaultMaxSignatureSize
    /\ stripped = NotStripped
    /\ item = ""
    /\ toggled = <<>>

InitTruncate ==
    /\ pc = "truncate"
    /\ \E s \in {<<>>} \cup {<<f>> : f \in SeqsUpTo(FieldChars, MaxField)},
          w \in {<<>>} \cup {<<n>> : n \in 0..MaxWidth} :
         truncated = [s |-> s, w |-> w, done |-> FALSE, result |-> <<>>]
    /\ lines = <<>>
    /\ max_signature_size = DefaultMaxSignatureSize
    /\ stripped = NotStripped
    /\ item = ""
    /\ toggled = <<>>
    /\ ret = <<>>
    /\ debug = FALSE
    /\ dryrun = FALSE
    /\ msg = NoMessage

InitUnit == RunIdle /\ (InitStrip \/ InitToggle \/ InitProxy \/ InitTruncate)

\* stripped = self._strip_signatures(lines, max_signature_size)
ApplyStrip ==
    /\ pc = "strip"
    /\ ~stripped.done
    /\ stripped' =
         [done     |-> TRUE,
          result   |-> _strip_signatures(lines, max_signature_size),
          siglines |-> StripScan(lines, max_signature_size).siglines,
          looked   |-> StripScan(lines, max_signature_size).looked]
    /\ UNCHANGED <<debug, dryrun, stages, pipeline, finished, pc, total, fetched, msg, frozen, pos,
                   exc, log, twin, lines, max_signature_size, item, toggled, ret, truncated>>

\* toggle_header applied to the item, then to its own result
ApplyToggle ==
    /\ pc = "toggle"
    /\ Len(toggled) < 2
    /\ toggled' = Append(toggled,
                         toggle_header(IF toggled = <<>> THEN item
                                       ELSE toggled[Len(toggled)]))
    /\ UNCHANGED <<debug, dryrun, stages, pipeline, finished, pc, total, fetched, msg, frozen, pos,
                   exc, log, twin, lines, max_signature_size, stripped, item, ret, truncated>>

\* what a direct call left behind: the envelope before, and the exception
Outcome(op, tag, r) ==
    Append(ret, [op |-> op, tag |-> tag, exc |-> r.exc, before |-> msg])

\* message.add_tag(tag) called directly
CallAddTag ==
    /\ pc = "proxy"
    /\ Len(ret) < MaxCalls
    /\ \E tag \in CallLabels :
         LET r == add_tag(msg, tag, 0)
         IN  /\ msg' = r.msg
             /\ ret' = Outcome("add", tag, r)
    /\ UNCHANGED <<debug, dryrun, stages, pipeline, finished, pc, total, fetched, frozen, pos,
                   exc, log, twin, lines, max_signature_size, stripped, item, toggled,
                   truncated>>

\* message.remove_tag(tag) called directly
CallRemoveTag ==
    /\ pc = "proxy"
    /\ Len(ret) < MaxCalls
    /\ \E tag \in CallLabels :
         LET r == remove_tag(msg, tag, 0)
         IN  /\ msg' = r.msg
             /\ ret' = Outcome("remove", tag, r)
    /\ UNCHANGED <<debug, dryrun, stages, pipeline, finished, pc, total, fetched, frozen, pos,
                   exc, log, twin, lines, max_signature_size, stripped, item, toggled,
                   truncated>>

\* truncate(s, w) called directly
ApplyTruncate ==
    /\ pc = "truncate"
    /\ ~truncated.done
    /\ truncated' = [truncated EXCEPT !.done = TRUE,
                                      !.result = truncate(truncated.s, truncated.w)]
    /\ UNCHANGED <<debug, dryrun, stages, pipeline, finished, pc, total, fetched, msg, frozen, pos,
                   exc, log, twin, lines, max_signature_size, stripped, item, toggled, ret>>

NextUnit ==
    \/ ApplyTruncate
    \/ ApplyStrip
    \/ ApplyToggle
    \/ CallAddTag
    \/ CallRemoveTag

SpecUnit == InitUnit /\ [][NextUnit]_vars

\* ------------------------------------------------------------------------
\* Properties
\* ------------------------------------------------------------------------

\* the value has passed the chain element at position p
Passed(p) == pc = "send" /\ pos > p

\* calls recorded in log that were made by the chain element at position p
CallsAt(calls, p) == {i \in 1..Len(calls) : calls[i].at = p}

\* C1: reconcile is idempotent: with dry-run off and the X-Keywords header
\* present, running sync_gmail_tags twice in succession leaves the same
\* indexed tags after the second run as after the first, and the second run
\* makes no add_tag / remove_tag call on the notmuch message.
C1_ReconcileIdempotent ==
    (stages = TwiceList /\ Passed(2) /\ ~dryrun /\ msg.file.marker) =>
        /\ msg.snaps[2] = msg.snaps[1]
        /\ CallsAt(msg.calls, 2) = {}

\* C2: reconcile is minimal: with T the indexed tags outside the exclusion
\* set and K the translated external labels, one run of sync_gmail_tags
\* makes exactly |T - K| remove_tag calls, one for each label of T - K, and
\* exactly |K - T| add_tag calls, one for each label of K - T; no label
\* gets two calls and none is both added and removed.
C2_ReconcileMinimal ==
    [][ (Holds("sync_gmail_tags") /\ msg.file.marker) =>
          LET T == {t \in msg.tags : t \notin exclude_sync_tags}
              K == {toggle_header(k) :
                      k \in Range(NonEmpty(StrSplit(StrStrip(msg.file.value), "")))}
              made == {i \in 1..Len(msg'.attempts) :
                          i > Len(msg.attempts) /\ msg'.attempts[i].at = pos}
              rem  == {i \in made : msg'.attempts[i].op = "remove"}
              add  == {i \in made : msg'.attempts[i].op = "add"}
          IN  /\ Len(msg'.attempts) = Len(msg.attempts) + Cardinality(made)
              /\ Cardinality(rem) = Cardinality(T \ K)
              /\ Cardinality(add) = Cardinality(K \ T)
              /\ {msg'.attempts[i].tag : i \in rem} = T \ K
              /\ {msg'.attempts[i].tag : i \in add} = K \ T
              /\ {msg'.attempts[i].tag : i \in rem}
                   \cap {msg'.attempts[i].tag : i \in add} = {}
              /\ ~dryrun => Len(msg'.calls) = Len(msg.calls) + Cardinality(made)
      ]_vars

\* C2 witness: a run of sync_gmail_tags that both removed and added a label
C2_Witness ==
    /\ Passed(1)
    /\ stages[1] = "sync_gmail_tags"
    /\ \E i \in CallsAt(msg.attempts, 1) : msg.attempts[i].op = "remove"
    /\ \E i \in CallsAt(msg.attempts, 1) : msg.attempts[i].op = "add"

\* the labels of the calls of kind op made to the proxy
Attempted(m, op) ==
    {m.attempts[i].tag : i \in {j \in 1..Len(m.attempts) : m.attempts[j].op = op}}

\* C3: dry-run isolation: while dry-run is on, no step of any pipeline
\* changes the tags of the notmuch message or the mail file, no add_tag /
\* remove_tag call reaches the notmuch message and the header is never
\* rewritten; with debug on as well, _add_tags and _remove_tags hold exactly
\* the labels whose add / remove was attempted (marked "+" and "-").
C3_DryRunIsolation ==
    [][ (dryrun /\ pc = "send" /\ pc' = "send") =>
          /\ msg'.tags = msg.tags
          /\ msg'.file = msg.file
          /\ msg'.calls = <<>>
          /\ msg'.writes = <<>>
          /\ debug => /\ msg'._add_tags =
                           {"+" \o t : t \in Attempted(msg', "add")}
                      /\ msg'._remove_tags =
                           {"-" \o t : t \in Attempted(msg', "remove")}
      ]_vars

\* C3 witness: a dry run with debug on in which an add and a remove were
\* attempted on a message whose tags differ from its keywords
C3_Witness ==
    /\ dryrun /\ debug
    /\ Passed(1)
    /\ msg._add_tags # {}
    /\ msg._remove_tags # {}
    /\ msg.tags # {}

\* C4: pipeline ordering: a value sent into Pipeline([s1, ..., sN, terminal])
\* visits s1, ..., sN in list order, each once, then the terminal, once;
\* send returns only after that, and nothing runs after the terminal.
C4_PipelineOrder ==
    /\ [](pc = "send" => msg.invoked = SubSeq(stages, 1, pos - 1))
    /\ [][ (pc = "send" /\ pc' = "loop") =>
             /\ msg.invoked = stages
             /\ stages[Len(stages)] \in Sinks ]_vars

\* C4 witness: the terminal of the four-element sync chain has consumed the
\* value and send is about to return
C4_Witness ==
    /\ pc = "send"
    /\ stages = SyncList
    /\ pos = Len(pipeline) + 1
    /\ msg.invoked = SyncList

\* C5: empty result: when search_messages raises NullPointerError,
\* process_pipeline logs the error, closes the pipeline and returns
\* normally: no exception leaves it, no stage ran, no tag was touched.
C5_EmptyResultReturns ==
    (pc = "done" /\ fetched = 0 /\ log # <<>>) =>
        /\ log = <<"error: Query returned no results">>
        /\ exc = "none"
        /\ msg.invoked = <<>>
        /\ msg.attempts = <<>>
        /\ msg.calls = <<>>

\* C6: a missing X-Keywords marker is a per-message skip: sync_gmail_tags
\* and sync_gmail_keywords then make no add / remove call, rewrite nothing,
\* record nothing and forward the same envelope to the next element; the
\* rest of the chain runs on it, send returns and the loop goes on.
C6_MissingHeaderSkip ==
    /\ [][ (\/ Holds("sync_gmail_tags")
            \/ Holds("sync_gmail_keywords")) /\ ~msg.file.marker =>
             /\ msg'.tags = msg.tags
             /\ msg'.file = msg.file
             /\ msg'.attempts = msg.attempts
             /\ msg'.calls = msg.calls
             /\ msg'.writes = msg.writes
             /\ msg'._add_tags = msg._add_tags
             /\ msg'._remove_tags = msg._remove_tags
             /\ msg'._mail = msg._mail
             /\ pos' = pos + 1
             /\ pc' = "send"
             /\ exc' = "none" ]_vars
    /\ [][ (pc = "send" /\ ~msg.file.marker /\ pos = Len(pipeline) + 1) =>
             /\ msg.invoked = stages
             /\ pc' = "loop"
             /\ exc' = "none"
             /\ fetched' = fetched /\ total' = total ]_vars

\* C6 witness: a message without the marker, carrying tags that a reconcile
\* against an empty label list would remove, has passed the whole sync chain
\* and another message is still to come
C6_Witness ==
    /\ pc = "send"
    /\ stages = SyncList
    /\ pos = Len(pipeline) + 1
    /\ ~msg.file.marker
    /\ "inbox" \in msg.tags
    /\ fetched < total

\* the envelope as call number i of the unit run left it
After(i) == IF i < Len(ret) THEN ret[i + 1].before ELSE msg

\* C7: label contract: add_tag and remove_tag both fail when the label is
\* None or the empty string, whatever debug and dry-run are, and then no call
\* reaches the notmuch message and no observation is recorded.
C7_LabelContract ==
    \A i \in 1..Len(ret) :
        ret[i].tag \in {None, ""} =>
            /\ ret[i].exc # "none"
            /\ After(i).calls = ret[i].before.calls
            /\ After(i).tags = ret[i].before.tags
            /\ After(i)._add_tags = ret[i].before._add_tags
            /\ After(i)._remove_tags = ret[i].before._remove_tags

\* C8: without a delimiter line _strip_signatures returns the full input
C8_NoDelimiterUnchanged ==
    (stripped.done /\ \A i \in 1..Len(lines) : ~signature_line_re(lines[i])) =>
        stripped.result = lines

\* line number n (from 0) of reversed(lines)
FromEnd(ls, n) == ls[Len(ls) - n]

\* the positions from the end that hold a delimiter line
Delims(ls) == {n \in 0..(Len(ls) - 1) : signature_line_re(FromEnd(ls, n))}

SetMax(S) == CHOOSE x \in S : \A y \in S : y <= x

SetMin(S) == CHOOSE x \in S : \A y \in S : x <= y

\* C9 as stated, read in its two possible ways.  The scan stops at line n
\* when max consecutive non-delimiter lines have been seen, counted alike
\* since the end and since the most recent delimiter: either line n is the
\* last of those max lines (after = 0), or they all lie before line n, itself
\* no delimiter (after = 1, the reading under which the claim's second
\* example holds).
ClaimedStops(ls, max, after) ==
    {n \in 0..(Len(ls) - 1) :
        /\ n + 1 >= max + after
        /\ \A k \in (n + 1 - max - after)..n : k \notin Delims(ls)}

ClaimedLooked(ls, max, after) ==
    IF ClaimedStops(ls, max, after) = {} THEN Len(ls)
    ELSE SetMin(ClaimedStops(ls, max, after)) + 1

ClaimedReached(ls, max, after) ==
    {d \in Delims(ls) : d < ClaimedLooked(ls, max, after)}

\* the outcome agrees with the claim read one way
AsClaimed(after) ==
    /\ stripped.looked = ClaimedLooked(lines, max_signature_size, after)
    /\ ClaimedReached(lines, max_signature_size, after) # {} =>
         stripped.result =
           SubSeq(lines, 1,
                  Len(lines)
                    - (SetMax(ClaimedReached(lines, max_signature_size, after)) + 1))

\* C9 (as stated): for a threshold of at least 1, the scan stops once
\* max_signature_size consecutive non-delimiter lines have been seen since
\* the most recent delimiter or since the end, and the result is the prefix
\* that ends just before the earliest delimiter the scan reached.
C9_CutPointAsStated ==
    (stripped.done /\ max_signature_size >= 1) => (AsClaimed(0) \/ AsClaimed(1))

\* what sigline_count is when line n meets the threshold test: 0 on a
\* delimiter line, else the lines since the end when no delimiter was seen,
\* else the lines since the most recent delimiter, that delimiter included
CountAt(ls, n) ==
    LET seen == {d \in Delims(ls) : d < n}
    IN  IF n \in Delims(ls) THEN 0
        ELSE IF seen = {} THEN n
        ELSE n - SetMax(seen)

\* the positions at which the threshold test breaks the loop
Breaks(ls, max) == {n \in 0..(Len(ls) - 1) : CountAt(ls, n) >= max}

\* lines the scan looks at
Looked(ls, max) ==
    IF Breaks(ls, max) = {} THEN Len(ls) ELSE SetMin(Breaks(ls, max)) + 1

\* delimiters among the lines the scan looks at
Reached(ls, max) == {d \in Delims(ls) : d < Looked(ls, max)}

Example1 == << <<"Huhu">>, <<"-", "-">>, <<"Ikke">> >>

Example2 ==
    << <<"Huhu">>, <<"-", "-">>, <<"Ikke">>, <<"*", "*">>,
       <<"a">>, <<"b">>, <<"c">>, <<"d">>, <<"e">> >>

\* C9 (amended): scanning from the end, a delimiter line resets the count
\* and is itself counted; the scan stops at the first non-delimiter line
\* that has max_signature_size or more lines before it since the end, when
\* no delimiter was seen yet, or since and including the most recent
\* delimiter (with max_signature_size 0 it stops at the first line, after
\* noting it if it is a delimiter).  When the scan reaches a delimiter the
\* result is the prefix that ends just before the earliest one reached.
\* ['Huhu','--','Ikke'] gives ['Huhu'], and so does
\* ['Huhu','--','Ikke','**',a,b,c,d,e] with threshold 5.
C9_CutPoint ==
    /\ _strip_signatures(Example1, DefaultMaxSignatureSize) = << <<"Huhu">> >>
    /\ _strip_signatures(Example2, 5) = << <<"Huhu">> >>
    /\ stripped.done =>
        /\ stripped.looked = Looked(lines, max_signature_size)
        /\ Reached(lines, max_signature_size) # {} =>
             stripped.result =
               SubSeq(lines, 1,
                      Len(lines) - (SetMax(Reached(lines, max_signature_size)) + 1))

\* C9 witness: the scan reached one delimiter and stopped at the threshold
\* before an earlier one
C9_Witness ==
    /\ stripped.done
    /\ max_signature_size >= 1
    /\ stripped.siglines > 0
    /\ stripped.looked < Len(lines)
    /\ \E d \in Delims(lines) : d >= stripped.looked
    /\ stripped.result # <<>>

\* every key and every value of GMAIL_HEADERS_TO_TAGS
TableLabels ==
    {"\\Important", "\\Starred", "\\Sent", "\\Draft", "\\Inbox",
     "important", "flagged", "sent", "draft", "inbox"}

\* C10: translate round trip: for every label of the mapping table, key or
\* value, toggle_header(toggle_header(label)) = label.
C10_ToggleRoundTrip ==
    (pc = "toggle" /\ Len(toggled) = 2 /\ item \in TableLabels) =>
        /\ toggled[2] = item
        /\ toggled[1] # item

\* C10 witness: a key of the table went to its tag and came back
C10_Witness ==
    /\ pc = "toggle"
    /\ item = "\\Starred"
    /\ toggled = <<"flagged", "\\Starred">>

\* the mapping table, pair by pair
TablePairs ==
    { <<"\\Important", "important">>, <<"\\Starred", "flagged">>,
      <<"\\Sent", "sent">>, <<"\\Draft", "draft">>, <<"\\Inbox", "inbox">> }

\* C11: translate is total with identity fallback: toggle_header returns the
\* forward image of a forward key, else the reverse image of a reverse key,
\* else the label itself.
C11_ToggleTotal ==
    (pc = "toggle" /\ Len(toggled) >= 1) =>
        /\ \A p \in TablePairs : item = p[1] => toggled[1] = p[2]
        /\ \A p \in TablePairs :
             (item = p[2] /\ \A q \in TablePairs : item # q[1]) => toggled[1] = p[1]
        /\ (\A p \in TablePairs : item # p[1] /\ item # p[2]) => toggled[1] = item

\* C11 witness: an unmapped label came back unchanged
C11_Witness ==
    /\ pc = "toggle"
    /\ item = "custom-tag"
    /\ toggled = <<"custom-tag">>

\* the field of a finished truncate call with its whitespace collapsed
Collapsed == JoinSpace(SplitWhitespace(truncated.s[1], <<>>, <<>>))

EndsInMarker(text) ==
    /\ Len(text) >= 3
    /\ SubSeq(text, Len(text) - 2, Len(text)) = <<".", ".", ".">>

\* the parts of the truncation claim that do not depend on the boundary
TruncateCommon ==
    /\ (truncated.w = <<>>) => truncated.result = truncated.s
    /\ (truncated.w # <<>> /\ (truncated.s = <<>> \/ truncated.w[1] <= 4)) =>
           truncated.result = << <<>> >>
    /\ (truncated.w # <<>>) => Len(truncated.result[1]) <= truncated.w[1]

C13_CloseTerminatesAll ==
    (pc = "done" /\ "error: Query returned no results" \in Range(log)) =>
        finished = 1..Len(pipeline)

\* C14: debug does not change side effects: for a fixed dry-run setting and
\* the same initial message, the calls that reach the notmuch message, the
\* tags they leave and the rewrites of the header are the same whether debug
\* is on or off; _add_tags and _remove_tags stay empty while debug is off.
C14_DebugNoSideEffects ==
    /\ (twin.run = 2 /\ pos = Len(pipeline) + 1) => Effects(msg) = twin.first
    /\ (twin.run >= 1 /\ ~debug) => (msg._add_tags = {} /\ msg._remove_tags = {})

\* C14 witness: both runs are over, each made calls that reached the notmuch
\* message and rewrote the header, and the run with debug on recorded labels
C14_Witness ==
    /\ twin.run = 2
    /\ pos = Len(pipeline) + 1
    /\ debug
    /\ twin.first.calls # <<>>
    /\ twin.first.writes # <<>>
    /\ msg.calls # <<>>
    /\ msg._remove_tags # {}

\* C15: per-message transaction bracket: a message is frozen when it is
\* fetched, before any stage runs, and thawed after the terminal has consumed
\* it; every add_tag / remove_tag call falls between the two; at most one
\* message is frozen at a time and the next one is fetched only after the
\* previous one is thawed.
C15_TransactionBracket ==
    /\ [](frozen \in {0, 1})
    /\ [](pc = "send" => frozen = 1)
    /\ [][ (fetched' # fetched) =>
             /\ frozen = 0
             /\ frozen' = 1
             /\ msg'.invoked = <<>>
             /\ msg'.attempts = <<>> ]_vars
    /\ [][ (Len(msg'.attempts) > Len(msg.attempts)) =>
             (frozen = 1 /\ frozen' = 1) ]_vars
    /\ [][ (frozen' < frozen) =>
             (msg.invoked = pipeline /\ pos = Len(pipeline) + 1) ]_vars

\* C15 witness: the second message of a run is frozen and a stage has made a
\* call that reached it
C15_Witness ==
    /\ pc = "send"
    /\ fetched = 2
    /\ frozen = 1
    /\ msg.calls # <<>>

\* C16: push rule: with T the indexed tags outside the exclusion set, K the
\* translated external labels and the header present, sync_gmail_keywords
\* rewrites the header exactly when T differs from K and dry-run is off; the
\* list it writes is exactly {toggle_header(t) : t \in T}; when T equals K
\* nothing is written and nothing is logged.
C16_PushRule ==
    [][ (Holds("sync_gmail_keywords") /\ msg.file.marker) =>
          LET T == {t \in msg.tags : t \notin exclude_sync_tags}
              K == {toggle_header(k) :
                      k \in Range(NonEmpty(StrSplit(StrStrip(msg.file.value), "")))}
              wrote == Len(msg'.writes) = Len(msg.writes) + 1
              last  == msg'.writes[Len(msg'.writes)]
          IN  /\ wrote <=> (T # K /\ ~dryrun)
              /\ ~wrote => (msg'.writes = msg.writes /\ msg'.file = msg.file)
              /\ wrote =>
                   /\ last.at = pos
                   /\ Range(last.keywords) = {toggle_header(t) : t \in T}
                   /\ Len(last.keywords) = Cardinality(T)
                   /\ msg'.file.marker
                   /\ msg'.file.value = <<" ">> \o StrJoin(last.keywords)
              /\ (T = K) => log' = log
              /\ msg'.tags = msg.tags
      ]_vars

\* C16 witness: the push stage rewrote a header that differed from the tags,
\* writing the Gmail form of the tag inbox
C16_Witness ==
    /\ Passed(1)
    /\ stages = SyncKeywordsList
    /\ ~dryrun
    /\ "inbox" \in msg.tags
    /\ Len(msg.writes) = 1
    /\ "\\Inbox" \in Range(msg.writes[1].keywords)
    /\ Len(msg.writes[1].keywords) = 2

\* C17: cache invalidation on rewrite: when set_keywords has rewritten the
\* header, the cached parsed view (_mail) and the cached body (_body) are
\* both cleared, so that the next access re-reads the file.
C17_RewriteClearsCaches ==
    [][ (Len(msg'.writes) > Len(msg.writes)) =>
          (msg'._mail = "None" /\ ~msg'._body.cached) ]_vars

\* C18: reconcile postcondition: after sync_gmail_tags with dry-run off on a
\* message whose header is present, the tags outside the exclusion set are
\* exactly the translated external labels outside the exclusion set, and
\* every excluded tag the message carried before is still on it.
C18_ReconcilePostcondition ==
    [][ (Holds("sync_gmail_tags") /\ msg.file.marker /\ ~dryrun) =>
          LET K == {toggle_header(k) :
                      k \in Range(NonEmpty(StrSplit(StrStrip(msg.file.value), "")))}
          IN  /\ msg'.tags \ exclude_sync_tags = K \ exclude_sync_tags
              /\ (msg.tags \cap exclude_sync_tags) \subseteq msg'.tags
              /\ msg'.file = msg.file
      ]_vars

\* C18 witness: reconcile ran on a message carrying the excluded tag new and
\* the tag custom, against a header holding \Inbox alone
C18_Witness ==
    /\ Passed(1)
    /\ stages = TwiceList
    /\ ~dryrun
    /\ msg.file = [marker |-> TRUE, value |-> <<" ", "\\Inbox">>]
    /\ msg.snaps[1] = {"inbox", "new"}
    /\ \E i \in CallsAt(msg.calls, 1) :
         msg.calls[i].op = "remove" /\ msg.calls[i].tag = "custom"

\* C19: push then reconcile agree: once sync_gmail_keywords has rewritten the
\* header with dry-run off, sync_gmail_tags on the same message makes no
\* add_tag / remove_tag call and a second sync_gmail_keywords rewrites
\* nothing, whatever the indexed tags are.
C19_PushThenReconcile ==
    (stages = PushReconcileList /\ ~dryrun /\ Passed(3)
       /\ CallsAt(msg.writes, 1) # {}) =>
        /\ CallsAt(msg.attempts, 2) = {}
        /\ CallsAt(msg.writes, 3) = {}

\* C20: transient marker gone at end of sync: with dry-run off, a message that
\* has gone through [sync_gmail_tags, add_mention, remove_new, log_output] does
\* not carry the tag new, whatever its tags and X-Keywords were at the start;
\* remove_new on a message without the tag new changes neither its tags nor
\* its file.
C20_NewGoneAfterSync ==
    /\ []((stages = SyncList /\ ~dryrun /\ Passed(3)) => "new" \notin msg.tags)
    /\ [][ (Holds("remove_new") /\ "new" \notin msg.tags) =>
             (msg'.tags = msg.tags /\ msg'.file = msg.file) ]_vars

\* C20 witness: the sync pipeline is through with a message that did not
\* carry new at the start, got it from an X-Keywords header holding new, and
\* lost it at remove_new
C20_Witness ==
    /\ stages = SyncList
    /\ ~dryrun
    /\ Passed(4)
    /\ msg.file = [marker |-> TRUE, value |-> <<" ", "new">>]
    /\ \E i \in CallsAt(msg.calls, 1) :
         msg.calls[i].op = "add" /\ msg.calls[i].tag = "new"
    /\ "new" \in msg.snaps[2]
    /\ "new" \notin msg.snaps[3]
    /\ "new" \notin msg.tags

=============================================================================
